---- MODULE Spec2Model ----
(***************************************************************************)
(* Configuration synchronisation subsystem of the VPN panel:               *)
(*   backend/app/services/config_sync_service.py  (ConfigSyncService)      *)
(*   backend/app/crud/crud_config.py              (CRUDConfig)             *)
(*   backend/app/models/config_sync.py            (ConfigSync, SyncStatus) *)
(*                                                                         *)
(* Granularity: every awaited database call of the service (a query, a     *)
(* create, an update with its commit and refresh) is one atomic step; the  *)
(* per-node tasks of one run and the runs of different requests interleave *)
(* between such steps.  Every request has its own AsyncSession             *)
(* (database.py, expire_on_commit=False): an ORM object loaded by a        *)
(* session keeps the attribute values of its last load/refresh, db.get()   *)
(* returns the identity-mapped object without re-reading the row, and a    *)
(* flush writes only the attributes whose value differs from the loaded    *)
(* one.  The store itself is reliable in Spec, SpecSeq and SpecRedeploy;   *)
(* in SpecFault a tracker call can raise.                                  *)
(***************************************************************************)
EXTENDS Integers, Sequences, FiniteSets, TLC

\* ---- bounds of the model ------------------------------------------------
MaxNodes == 2
MaxRuns == 2
MaxStarts == 2
MaxTargets == 2
MaxTasks == 2
MaxConfigs == 1
MaxFaults == 1
MaxRedeploys == 3
MaxCalls == 2
MaxStoreCalls == 3
MaxVersions == 2

\* the ids in the node registry and in the config store, and one id that is
\* in neither
NodeIds == 1..MaxNodes
UnknownNode == MaxNodes + 1
ConfigIds == 1..MaxConfigs
UnknownConfig == MaxConfigs + 1
RunIds == 1..MaxRuns

\* ---- SyncStatus (models/config_sync.py) ----------------------------------
PENDING == "pending"
IN_PROGRESS == "in_progress"
COMPLETED == "completed"
FAILED == "failed"
OUTDATED == "outdated"
SyncStatus == {PENDING, IN_PROGRESS, COMPLETED, FAILED, OUTDATED}

\* NULL column values: a text column and a timestamp column
NULL == "null"
NoTime == 0

VARIABLES
    nodeActive,     \* Node.is_active of every registered node
    nodeBlocked,    \* Node.is_blocked of every registered node
    syncs,          \* table config_syncs: row i has primary key i
    runs,           \* the deploy_config / sync_all_nodes calls in progress
    started,        \* number of calls started so far
    applyCalls,     \* number of apply requests sent, per config and node
    configs,        \* table config_versions: row i has primary key i
    calls           \* the create_with_owner / update_config calls in progress

vars == <<nodeActive, nodeBlocked, syncs, runs, started, applyCalls,
          configs, calls>>

\* ---- helpers --------------------------------------------------------------
RECURSIVE SetToSeq(_)
SetToSeq(S) ==
    IF S = {} THEN <<>>
    ELSE LET m == CHOOSE x \in S : \A y \in S : x <= y
         IN <<m>> \o SetToSeq(S \ {m})

RECURSIVE SelectTargets(_, _)
SeqsUpTo(S, n) == UNION {[1..k -> S] : k \in 0..n}

Range(s) == {s[i] : i \in DOMAIN s}

\* ---- the outcome of one apply request (session.post, lines 291-310) -------
TransportError == [http |-> 0, success |-> FALSE]
ApplyOutcomes ==
    { [http |-> 200, success |-> TRUE],
      [http |-> 200, success |-> FALSE],
      [http |-> 204, success |-> TRUE],
      [http |-> 500, success |-> FALSE],
      TransportError }

\* the exception raised inside the try block for an outcome, NULL when none
ApplyError(o) ==
    IF o = TransportError THEN "transport_error"
    ELSE IF o.http # 200 THEN "http_error"
    ELSE IF ~o.success THEN "rejected"
    ELSE NULL

\* what the task saw of the response: the status line and result.get("success")
AnswerOf(o) ==
    IF o = TransportError THEN "no_response"
    ELSE IF o.http \notin 200..299 THEN "non_2xx"
    ELSE IF o.success THEN "2xx_success"
    ELSE "2xx_failure"

\* ---- node registry --------------------------------------------------------
\* the registries considered: every node active, the last node inactive,
\* no node active; the last node is blocked
Registries ==
    {[n \in NodeIds |-> TRUE], [n \in NodeIds |-> n < MaxNodes],
     [n \in NodeIds |-> FALSE]}

ActiveNodes == {n \in NodeIds : nodeActive[n]}

\* an entry of the `nodes` argument: a Node object or an integer id
TargetEntries ==
    {[obj |-> TRUE, id |-> n] : n \in NodeIds}
        \cup {[obj |-> FALSE, id |-> n] : n \in NodeIds \cup {UnknownNode}}
TargetLists == SeqsUpTo(TargetEntries, MaxTargets)

SelectTargets(nodes, i) ==
    IF i > Len(nodes) THEN <<>>
    ELSE LET e == nodes[i]
             keep == IF e.obj THEN TRUE
                     ELSE e.id \in NodeIds /\ nodeActive[e.id]
         IN (IF keep THEN <<e.id>> ELSE <<>>) \o SelectTargets(nodes, i + 1)

\* the `nodes` argument names an id that is not in the registry
NamesUnknownNode(nodes) ==
    \E i \in DOMAIN nodes : ~nodes[i].obj /\ nodes[i].id \notin NodeIds

\* (variant: an empty target list is dispatched like any other)
NoTargetsIgnored(db_nodes) == FALSE

\* line 63, `if not db_nodes`
NoTargets(db_nodes) == db_nodes = <<>>

\* _get_nodes_to_sync: `all` stands for nodes=None
GetNodesToSync(all, nodes) ==
    IF all THEN SetToSeq(ActiveNodes) ELSE SelectTargets(nodes, 1)

\* ---- tracker (CRUDConfig) -------------------------------------------------
\* get_sync_status: primary keys of the rows of a config (and node, 0 = any)
GetSyncStatus(config_id, node_id) ==
    {i \in 1..Len(syncs) :
        /\ syncs[i].config_version_id = config_id
        /\ (node_id = 0 \/ syncs[i].node_id = node_id)}

\* rows a query returns enter the session's identity map; objects already
\* there keep their loaded attributes
LoadInto(cache, ids) ==
    [i \in (DOMAIN cache) \cup ids |->
        IF i \in DOMAIN cache THEN cache[i] ELSE syncs[i]]

\* create_sync_status: the new row
NewSync(config_id, node_id, status) ==
    [config_version_id |-> config_id, node_id |-> node_id, status |-> status,
     last_sync |-> NoTime, last_attempt |-> 1, error_message |-> NULL,
     retry_count |-> 0, is_active |-> TRUE]

\* update_sync_status, lines 216-226: the attribute assignments on db_obj
AssignStatus(obj, status, error_message, increment_retry, now) ==
    LET o1 == [obj EXCEPT !.status = status, !.last_attempt = now]
    IN  IF status = COMPLETED
        THEN [o1 EXCEPT !.last_sync = now, !.error_message = NULL,
                        !.retry_count = 0]
        ELSE IF status = FAILED
        THEN [o1 EXCEPT !.error_message = error_message,
                        !.retry_count = IF increment_retry THEN @ + 1 ELSE @]
        ELSE o1

\* db.commit(): the UPDATE carries the attributes that differ from the
\* values the session loaded; the other columns of the row stay as they are
Flush(row, loaded, obj) ==
    [f \in DOMAIN row |-> IF obj[f] # loaded[f] THEN obj[f] ELSE row[f]]

\* update_sync_status: the row after commit (and the object after refresh)
UpdatedRow(cache, sync_id, status, error_message, increment_retry) ==
    LET loaded == cache[sync_id]
        now == syncs[sync_id].last_attempt + 1
        obj == AssignStatus(loaded, status, error_message, increment_retry, now)
    IN Flush(syncs[sync_id], loaded, obj)

\* update_sync_status called once more in the same session, right after a
\* call that left `row` (the object is the refreshed row)
CalledAgain(row, status, error_message, increment_retry) ==
    Flush(row, row, AssignStatus(row, status, error_message, increment_retry,
                                 row.last_attempt + 1))

\* get_nodes_needing_sync (limit left out: it exceeds the registry): the
\* active nodes without a record of the config, or whose latest record
\* (highest id) is not COMPLETED or was last updated before
\* cutoff = now - 24 h.  updated_at is set by every INSERT and UPDATE of a
\* row, as last_attempt is: last_attempt stands for both.
LatestSync(config_id, node_id) ==
    CHOOSE i \in GetSyncStatus(config_id, node_id) :
        \A j \in GetSyncStatus(config_id, node_id) : j <= i

GetNodesNeedingSync(config_id, cutoff) ==
    {n \in ActiveNodes :
        \/ GetSyncStatus(config_id, n) = {}
        \/ syncs[LatestSync(config_id, n)].status # COMPLETED
        \/ syncs[LatestSync(config_id, n)].last_attempt < cutoff}

\* get_config_sync_summary
CountStatus(config_id, st) ==
    Cardinality({i \in GetSyncStatus(config_id, 0) :
                    /\ syncs[i].node_id \in ActiveNodes
                    /\ syncs[i].status = st})

\* (variant: a failed record decides before the synced count is compared)
SyncStatusOfFailedFirst(total_nodes, synced_nodes, pending_nodes, failed_nodes) ==
    IF failed_nodes > 0 THEN "failed"
    ELSE IF synced_nodes = total_nodes THEN "completed"
    ELSE IF pending_nodes > 0 THEN "in_progress"
    ELSE "unknown"

\* lines 324-332: the overall status, for total_nodes > 0
SyncStatusOf(total_nodes, synced_nodes, pending_nodes, failed_nodes) ==
    IF synced_nodes = total_nodes THEN "completed"
    ELSE IF failed_nodes > 0 THEN "failed"
    ELSE IF pending_nodes > 0 THEN "in_progress"
    ELSE "unknown"

GetConfigSyncSummary(config_id) ==
    LET total_nodes == Cardinality(ActiveNodes)
        synced_nodes == CountStatus(config_id, COMPLETED)
        pending_nodes == CountStatus(config_id, PENDING)
                            + CountStatus(config_id, IN_PROGRESS)
        failed_nodes == CountStatus(config_id, FAILED)
        outdated_nodes == CountStatus(config_id, OUTDATED)
    IN  IF total_nodes = 0
        THEN [total_nodes |-> 0, synced_nodes |-> 0, pending_nodes |-> 0,
              failed_nodes |-> 0, outdated_nodes |-> 0,
              sync_status |-> "no_nodes"]
        ELSE [total_nodes |-> total_nodes, synced_nodes |-> synced_nodes,
              pending_nodes |-> pending_nodes, failed_nodes |-> failed_nodes,
              outdated_nodes |-> outdated_nodes,
              sync_status |-> SyncStatusOf(total_nodes, synced_nodes,
                                           pending_nodes, failed_nodes)]

NoSummary ==
    [total_nodes |-> 0, synced_nodes |-> 0, pending_nodes |-> 0,
     failed_nodes |-> 0, outdated_nodes |-> 0, sync_status |-> "none"]

\* ---- runs and their per-node tasks ----------------------------------------
\* A run keeps, besides the arguments and the tasks of the call: the resolved
\* targets, what the call returned (summary) or raised (error), and three
\* observations: whether every target already had all its records COMPLETED
\* when the call began (done0), the summary at that moment (summary0) and the
\* number of apply requests its tasks sent (sent); and whether its `nodes`
\* argument named an id that is not in the registry (missing).  Where the
\* store can fail (SpecFault): the number of tracker calls of the run that
\* raised (faults) and whether its session refuses further SQL (broken).
\* a task of _sync_config_to_node; seen, answer and log record what the
\* task observed and did: the status of the record _get_or_create_sync
\* returned, the response to its apply request, the order of its effects
NewTask(node) ==
    [node |-> node, pc |-> "get", sync |-> 0, seen |-> "none",
     answer |-> "none", log |-> <<>>]

IdleRun ==
    [phase |-> "idle", config |-> 0, force |-> FALSE, targets |-> <<>>,
     tasks |-> <<>>, cache |-> <<>>, summary |-> NoSummary, error |-> 0,
     done0 |-> FALSE, summary0 |-> NoSummary, sent |-> 0, missing |-> FALSE,
     faults |-> 0, broken |-> FALSE]

\* tasks dispatched and not yet gathered, over all runs
RECURSIVE TasksOf(_)
TasksOf(R) ==
    IF R = {} THEN 0
    ELSE LET r == CHOOSE x \in R : TRUE
         IN (IF runs[r].phase = "running" THEN Len(runs[r].tasks) ELSE 0)
                + TasksOf(R \ {r})

LiveTasks == TasksOf(RunIds)

\* ---- the config store: state ------------------------------------------------
CallIds == 1..MaxCalls
Versions == 1..MaxVersions

\* configuration documents, as the key order the client sent: the first two
\* are the same document
Docs == {<<"inbounds", "outbounds">>, <<"outbounds", "inbounds">>,
         <<"inbounds">>}
NoDoc == <<>>

\* create_with_owner lines 58-59 / update_config lines 110-111:
\* sha256(json.dumps(config, sort_keys=True)); the digest is taken as
\* injective on the sorted serialisation, which is the set of the keys here
Checksum(config) == Range(config)

\* a row of config_versions
NewConfig(version, config, is_active, is_default) ==
    [version |-> version, checksum |-> Checksum(config),
     is_active |-> is_active, is_default |-> is_default]

\* the versions the synchronisation deploys: one row per config id, the
\* first one active and default
InitialStore ==
    [c \in ConfigIds |-> NewConfig(c, <<"inbounds">>, c = 1, c = 1)]

\* a create_with_owner / update_config call: its arguments (version,
\* config, is_default: "true", "false" or left out), its db_obj (id,
\* is_active) and its position
IdleCall ==
    [op |-> "none", pc |-> "idle", version |-> 0, config |-> NoDoc,
     is_default |-> "unset", is_active |-> FALSE, id |-> 0]

Init ==
    /\ nodeActive \in Registries
    /\ nodeBlocked = [n \in NodeIds |-> n = MaxNodes]
    /\ syncs = <<>>
    /\ runs = [r \in RunIds |-> IdleRun]
    /\ started = 0
    /\ applyCalls = [c \in ConfigIds |-> [n \in NodeIds |-> 0]]
    /\ configs = InitialStore
    /\ calls = [p \in CallIds |-> IdleCall]

\* every node of S has a record of the config and all of them are COMPLETED
AllCompleted(config_id, S) ==
    \A n \in S :
        /\ GetSyncStatus(config_id, n) # {}
        /\ \A i \in GetSyncStatus(config_id, n) : syncs[i].status = COMPLETED

\* deploy_config lines 54-82 / sync_all_nodes lines 117-153: resolve the
\* config and the targets, raise 404 / 400, else dispatch one task per node.
\* Run r stands for one request with its own session; a finished request's
\* slot is taken over by the next request (a new session, an empty
\* identity map): the first slot that is not running.
Dispatch(r, cfg, all, nodes, force) ==
    /\ runs[r].phase # "running"
    /\ \A q \in RunIds : q < r => runs[q].phase = "running"
    /\ started' = started + 1
    /\ LET db_nodes == GetNodesToSync(all, nodes)
       IN runs' = [runs EXCEPT ![r] =
            IF cfg \notin ConfigIds
            THEN [IdleRun EXCEPT !.phase = "raised", !.error = 404]
            ELSE IF NoTargets(db_nodes)
            THEN [IdleRun EXCEPT !.phase = "raised", !.error = 400,
                                 !.config = cfg,
                                 !.missing = NamesUnknownNode(nodes)]
            ELSE [IdleRun EXCEPT !.phase = "running", !.config = cfg,
                                 !.force = force, !.targets = db_nodes,
                                 !.missing = NamesUnknownNode(nodes),
                                 !.done0 = AllCompleted(cfg, Range(db_nodes)),
                                 !.summary0 = GetConfigSyncSummary(cfg),
                                 !.tasks = [i \in DOMAIN db_nodes |->
                                               NewTask(db_nodes[i])]]]
    /\ UNCHANGED <<configs, calls, nodeActive, nodeBlocked, syncs, applyCalls>>

\* a call, within the bounds on the calls made and on the tasks alive
BeginRun(r, cfg, all, nodes, force) ==
    /\ started < MaxStarts
    /\ LiveTasks + Len(GetNodesToSync(all, nodes)) <= MaxTasks
    /\ Dispatch(r, cfg, all, nodes, force)

\* deploy_config(config_version, nodes, force)
DeployConfig(r) ==
    \E cfg \in ConfigIds \cup {UnknownConfig}, all \in BOOLEAN,
       nodes \in TargetLists, force \in BOOLEAN :
        /\ all => nodes = <<>>
        /\ BeginRun(r, cfg, all, nodes, force)

\* sync_all_nodes(config_version, force): always nodes=None
SyncAllNodes(r) ==
    \E cfg \in ConfigIds \cup {UnknownConfig}, force \in BOOLEAN :
        BeginRun(r, cfg, TRUE, <<>>, force)

Running(r, t) ==
    /\ runs[r].phase = "running"
    /\ t \in DOMAIN runs[r].tasks

\* _get_or_create_sync lines 360-365: the query; an existing record is
\* returned (the query has no ORDER BY: any of the matching rows is first)
GetSync(r, t) ==
    /\ Running(r, t)
    /\ runs[r].tasks[t].pc = "get"
    /\ LET task == runs[r].tasks[t]
           found == GetSyncStatus(runs[r].config, task.node)
           cache == LoadInto(runs[r].cache, found)
       IN IF found = {}
          THEN runs' = [runs EXCEPT ![r].tasks[t].pc = "create"]
          ELSE \E id \in found :
                 runs' = [runs EXCEPT ![r].cache = cache,
                                      ![r].tasks[t].sync = id,
                                      ![r].tasks[t].seen = cache[id].status,
                                      ![r].tasks[t].pc = "mark"]
    /\ UNCHANGED <<configs, calls, nodeActive, nodeBlocked, syncs, started, applyCalls>>

\* _get_or_create_sync lines 367-373: create_sync_status(PENDING)
CreateSync(r, t) ==
    /\ Running(r, t)
    /\ runs[r].tasks[t].pc = "create"
    /\ LET task == runs[r].tasks[t]
           id == Len(syncs) + 1
           row == NewSync(runs[r].config, task.node, PENDING)
       IN /\ syncs' = Append(syncs, row)
          /\ runs' = [runs EXCEPT ![r].cache = (id :> row) @@ @,
                                  ![r].tasks[t].sync = id,
                                  ![r].tasks[t].seen = PENDING,
                                  ![r].tasks[t].pc = "mark"]
    /\ UNCHANGED <<configs, calls, nodeActive, nodeBlocked, started, applyCalls>>

\* (variant: the request is sent before the IN_PROGRESS write)
AttemptEventsSendFirst(skip) ==
    IF skip THEN <<IN_PROGRESS, "skip">> ELSE <<"apply", IN_PROGRESS>>

\* the order of a task's effects in lines 255-297: the IN_PROGRESS write
\* comes first, then the short-circuit return or the apply request
AttemptEvents(skip) ==
    IF skip THEN <<IN_PROGRESS, "skip">> ELSE <<IN_PROGRESS, "apply">>

\* (variant: a failed task cancels its siblings, as gather does without
\* return_exceptions when the caller then cancels the rest)
TasksAfterApplyFailFast(tasks, t, o) ==
    [u \in DOMAIN tasks |->
        IF u = t
        THEN [tasks[u] EXCEPT
                !.pc = "done",
                !.answer = AnswerOf(o),
                !.log = @ \o <<"response",
                               IF ApplyError(o) = NULL THEN COMPLETED
                               ELSE FAILED>>]
        ELSE IF ApplyError(o) # NULL THEN [tasks[u] EXCEPT !.pc = "done"]
        ELSE tasks[u]]

\* the tasks of a run after task t has its response and has written the
\* terminal status: only task t ends (gather(return_exceptions=True), each
\* task catches its own exception)
TasksAfterApply(tasks, t, o) ==
    [tasks EXCEPT
        ![t].pc = "done",
        ![t].answer = AnswerOf(o),
        ![t].log = @ \o <<"response",
                          IF ApplyError(o) = NULL THEN COMPLETED ELSE FAILED>>]

\* (variant: the status found by _get_or_create_sync decides, force or not)
ShortCircuitOnFound(force, found, sync) == found.status = COMPLETED

\* line 265, `if not force and sync.status == SyncStatus.COMPLETED`: sync is
\* the object update_sync_status has just changed and refreshed, not the
\* one _get_or_create_sync found
ShortCircuit(force, found, sync) == ~force /\ sync.status = COMPLETED

\* _sync_config_to_node lines 255-297: write IN_PROGRESS, then either the
\* short-circuit return or the apply request is sent
MarkInProgress(r, t) ==
    /\ Running(r, t)
    /\ runs[r].tasks[t].pc = "mark"
    /\ LET task == runs[r].tasks[t]
           row == UpdatedRow(runs[r].cache, task.sync, IN_PROGRESS, NULL, FALSE)
           skip == ShortCircuit(runs[r].force, runs[r].cache[task.sync], row)
       IN /\ syncs' = [syncs EXCEPT ![task.sync] = row]
          /\ runs' = [runs EXCEPT
                ![r].cache[task.sync] = row,
                ![r].tasks[t].pc = IF skip THEN "done" ELSE "inflight",
                ![r].sent = IF skip THEN @ ELSE @ + 1,
                ![r].tasks[t].log = @ \o AttemptEvents(skip)]
          /\ applyCalls' =
                IF skip THEN applyCalls
                ELSE [applyCalls EXCEPT ![runs[r].config][task.node] = @ + 1]
    /\ UNCHANGED <<configs, calls, nodeActive, nodeBlocked, started>>

\* _sync_config_to_node lines 297-344: the response (or transport error)
\* arrives, then COMPLETED or, in the except block, FAILED is written
FinishApply(r, t) ==
    /\ Running(r, t)
    /\ runs[r].tasks[t].pc = "inflight"
    /\ \E o \in ApplyOutcomes :
        LET task == runs[r].tasks[t]
            err == ApplyError(o)
            row == IF err = NULL
                   THEN UpdatedRow(runs[r].cache, task.sync, COMPLETED, NULL, FALSE)
                   ELSE UpdatedRow(runs[r].cache, task.sync, FAILED, err, TRUE)
        IN /\ syncs' = [syncs EXCEPT ![task.sync] = row]
           /\ runs' = [runs EXCEPT
                 ![r].cache[task.sync] = row,
                 ![r].tasks = TasksAfterApply(@, t, o)]
    /\ UNCHANGED <<configs, calls, nodeActive, nodeBlocked, started, applyCalls>>

\* (variant: the tasks are dispatched and not awaited)
AllTasksDoneNoWait(r) == TRUE

\* line 85, await asyncio.gather(*sync_tasks): every task has finished
AllTasksDone(r) ==
    \A t \in DOMAIN runs[r].tasks : runs[r].tasks[t].pc = "done"

\* deploy_config lines 84-95: gather has returned, the summary is read and
\* the job descriptor returned
Gather(r) ==
    /\ runs[r].phase = "running"
    /\ AllTasksDone(r)
    /\ runs' = [runs EXCEPT ![r].phase = "returned",
                            ![r].tasks = <<>>, ![r].cache = <<>>,
                            ![r].summary = GetConfigSyncSummary(runs[r].config)]
    /\ UNCHANGED <<configs, calls, nodeActive, nodeBlocked, syncs, started, applyCalls>>

Next ==
    \/ \E r \in RunIds : DeployConfig(r)
    \/ \E r \in RunIds : SyncAllNodes(r)
    \/ \E r \in RunIds : \E t \in 1..MaxTargets : GetSync(r, t)
    \/ \E r \in RunIds : \E t \in 1..MaxTargets : CreateSync(r, t)
    \/ \E r \in RunIds : \E t \in 1..MaxTargets : MarkInProgress(r, t)
    \/ \E r \in RunIds : \E t \in 1..MaxTargets : FinishApply(r, t)
    \/ \E r \in RunIds : Gather(r)

Spec == Init /\ [][Next]_vars

\* ---- calls made one after the other ----------------------------------------
\* the same operations when a call begins only after the previous call has
\* returned or raised (the tasks of one call still interleave)
NoRunActive == \A q \in RunIds : runs[q].phase # "running"

SeqNext ==
    \/ \E r \in RunIds : NoRunActive /\ DeployConfig(r)
    \/ \E r \in RunIds : NoRunActive /\ SyncAllNodes(r)
    \/ \E r \in RunIds : \E t \in 1..MaxTargets : GetSync(r, t)
    \/ \E r \in RunIds : \E t \in 1..MaxTargets : CreateSync(r, t)
    \/ \E r \in RunIds : \E t \in 1..MaxTargets : MarkInProgress(r, t)
    \/ \E r \in RunIds : \E t \in 1..MaxTargets : FinishApply(r, t)
    \/ \E r \in RunIds : Gather(r)

SpecSeq == Init /\ [][SeqNext]_vars

\* ---- a deploy on top of an earlier failure ---------------------------------
\* the messages a failed attempt leaves in error_message
FailureMessages == {ApplyError(o) : o \in ApplyOutcomes} \ {NULL}

\* the record an earlier deploy that failed once has left: created PENDING,
\* written IN_PROGRESS, then FAILED with message e
EarlierFailure(config_id, node_id, e) ==
    AssignStatus(
        AssignStatus(NewSync(config_id, node_id, PENDING),
                     IN_PROGRESS, NULL, FALSE, 2),
        FAILED, e, TRUE, 3)

\* the calls begin when the first node has such a record of the first config
InitRedeploy ==
    /\ nodeActive \in Registries
    /\ nodeBlocked = [n \in NodeIds |-> n = MaxNodes]
    /\ \E e \in FailureMessages : syncs = <<EarlierFailure(1, 1, e)>>
    /\ runs = [r \in RunIds |-> IdleRun]
    /\ started = 0
    /\ applyCalls = [c \in ConfigIds |-> [n \in NodeIds |-> 0]]
    /\ configs = InitialStore
    /\ calls = [p \in CallIds |-> IdleCall]

SpecRedeploy == InitRedeploy /\ [][Next]_vars

\* ---- one pair deployed again and again ---------------------------------------
\* deploy_config(1, [1], force), up to MaxRedeploys times, overlapping or not
Redeploy(r) ==
    \E force \in BOOLEAN :
        /\ started < MaxRedeploys
        /\ Dispatch(r, 1, FALSE, <<[obj |-> FALSE, id |-> 1]>>, force)

SamePairNext ==
    \/ \E r \in RunIds : Redeploy(r)
    \/ \E r \in RunIds : \E t \in 1..MaxTargets : GetSync(r, t)
    \/ \E r \in RunIds : \E t \in 1..MaxTargets : CreateSync(r, t)
    \/ \E r \in RunIds : \E t \in 1..MaxTargets : MarkInProgress(r, t)
    \/ \E r \in RunIds : \E t \in 1..MaxTargets : FinishApply(r, t)
    \/ \E r \in RunIds : Gather(r)

SpecSamePair == Init /\ [][SamePairNext]_vars

\* ---- a call can be cancelled ------------------------------------------------
\* The request of run r is cancelled while its tasks run: CancelledError is
\* not an Exception, so the except block of _sync_config_to_node does not
\* run and nothing is written; what the tasks have committed stays.
Cancel(r) ==
    /\ runs[r].phase = "running"
    /\ runs' = [runs EXCEPT ![r].phase = "cancelled",
                            ![r].tasks = <<>>, ![r].cache = <<>>]
    /\ UNCHANGED <<configs, calls, nodeActive, nodeBlocked, syncs, started, applyCalls>>

\* calls made one after the other, any of which may be cancelled
CancelNext ==
    \/ \E r \in RunIds : NoRunActive /\ DeployConfig(r)
    \/ \E r \in RunIds : NoRunActive /\ SyncAllNodes(r)
    \/ \E r \in RunIds : \E t \in 1..MaxTargets : GetSync(r, t)
    \/ \E r \in RunIds : \E t \in 1..MaxTargets : CreateSync(r, t)
    \/ \E r \in RunIds : \E t \in 1..MaxTargets : MarkInProgress(r, t)
    \/ \E r \in RunIds : \E t \in 1..MaxTargets : FinishApply(r, t)
    \/ \E r \in RunIds : Gather(r)
    \/ \E r \in RunIds : Cancel(r)

SpecCancel == Init /\ [][CancelNext]_vars

\* ---- the config store: create_with_owner and update_config -------------------
\* Every call has its own session; every awaited statement is one step and
\* deactivate_all / unset_default_flag commit on their own.  The model class
\* ConfigVersion is taken to have the columns the code assigns (is_default).
CallOver(p) == calls[p].pc \in {"idle", "done", "raised"}

\* create_with_owner(obj_in) is called
BeginCreate(p) ==
    /\ CallOver(p)
    /\ started < MaxStoreCalls
    /\ started' = started + 1
    /\ \E version \in Versions, config \in Docs,
          is_default \in {"true", "false"} :
          calls' = [calls EXCEPT ![p] =
                      [IdleCall EXCEPT !.op = "create", !.pc = "checksum",
                                       !.version = version, !.config = config,
                                       !.is_default = is_default]]
    /\ UNCHANGED <<nodeActive, nodeBlocked, syncs, runs, applyCalls, configs>>

\* get_by_checksum(db, checksum)
GetByChecksum(checksum) ==
    {i \in DOMAIN configs : configs[i].checksum = checksum}

\* create_with_owner lines 61-64: an existing row with the checksum is
\* returned (first() of a query without ORDER BY: any of them)
CheckExisting(p) ==
    /\ calls[p].pc = "checksum"
    /\ LET existing == GetByChecksum(Checksum(calls[p].config))
       IN IF existing = {}
          THEN calls' = [calls EXCEPT ![p].pc = "count"]
          ELSE \E id \in existing :
                 calls' = [calls EXCEPT ![p].pc = "done", ![p].id = id,
                              ![p].is_active = configs[id].is_active]
    /\ UNCHANGED <<nodeActive, nodeBlocked, syncs, runs, started, applyCalls,
                   configs>>

\* create_with_owner lines 66-81: count, and the new object's flags
CountConfigs(p) ==
    /\ calls[p].pc = "count"
    /\ LET is_first == Len(configs) = 0
           flag == is_first \/ calls[p].is_default = "true"
       IN calls' = [calls EXCEPT ![p].is_active = flag,
                                 ![p].is_default = IF flag THEN "true"
                                                   ELSE "false",
                                 ![p].pc = IF flag THEN "deactivate"
                                           ELSE "insert"]
    /\ UNCHANGED <<nodeActive, nodeBlocked, syncs, runs, started, applyCalls,
                   configs>>

\* deactivate_all(db, exclude_id): exclude_id is db_obj.id, None (0) for an
\* object not yet flushed
DeactivateAll(p) ==
    /\ calls[p].pc = "deactivate"
    /\ configs' = [i \in DOMAIN configs |->
                     IF i # calls[p].id
                     THEN [configs[i] EXCEPT !.is_active = FALSE]
                     ELSE configs[i]]
    /\ calls' = [calls EXCEPT ![p].pc =
                    IF calls[p].is_default = "true" THEN "unset"
                    ELSE IF calls[p].op = "create" THEN "insert" ELSE "done"]
    /\ UNCHANGED <<nodeActive, nodeBlocked, syncs, runs, started, applyCalls>>

\* unset_default_flag(db, exclude_id)
UnsetDefaultFlag(p) ==
    /\ calls[p].pc = "unset"
    /\ configs' = [i \in DOMAIN configs |->
                     IF i # calls[p].id
                     THEN [configs[i] EXCEPT !.is_default = FALSE]
                     ELSE configs[i]]
    /\ calls' = [calls EXCEPT ![p].pc =
                    IF calls[p].op = "create" THEN "insert" ELSE "done"]
    /\ UNCHANGED <<nodeActive, nodeBlocked, syncs, runs, started, applyCalls>>

\* create_with_owner lines 93-97: db.add, commit, refresh; version is
\* unique (config_version.py line 17): a second row of the version raises
InsertConfig(p) ==
    /\ calls[p].pc = "insert"
    /\ IF \E i \in DOMAIN configs : configs[i].version = calls[p].version
       THEN /\ calls' = [calls EXCEPT ![p].pc = "raised"]
            /\ UNCHANGED configs
       ELSE /\ configs' = Append(configs,
                              NewConfig(calls[p].version, calls[p].config,
                                        calls[p].is_active,
                                        calls[p].is_default = "true"))
            /\ calls' = [calls EXCEPT ![p].pc = "done",
                                      ![p].id = Len(configs) + 1]
    /\ UNCHANGED <<nodeActive, nodeBlocked, syncs, runs, started, applyCalls>>

\* update_config(db_obj, obj_in) is called with the fields of ConfigUpdate
\* that bear on the flags and the checksum: config and is_default, each
\* set or left out
BeginUpdate(p) ==
    /\ CallOver(p)
    /\ started < MaxStoreCalls
    /\ started' = started + 1
    /\ \E id \in DOMAIN configs, config \in Docs \cup {NoDoc},
          is_default \in {"unset", "true", "false"} :
          calls' = [calls EXCEPT ![p] =
                      [IdleCall EXCEPT !.op = "update", !.pc = "update",
                                       !.id = id, !.config = config,
                                       !.is_default = is_default]]
    /\ UNCHANGED <<nodeActive, nodeBlocked, syncs, runs, applyCalls, configs>>

\* update_config lines 103-114: the checksum is recomputed when config is
\* given, the fields are written and db_obj refreshed
UpdateFields(p) ==
    /\ calls[p].pc = "update"
    /\ LET id == calls[p].id
           row == [configs[id] EXCEPT
                     !.checksum = IF calls[p].config = NoDoc THEN @
                                  ELSE Checksum(calls[p].config),
                     !.is_default = IF calls[p].is_default = "unset" THEN @
                                    ELSE calls[p].is_default = "true"]
       IN /\ configs' = [configs EXCEPT ![id] = row]
          /\ calls' = [calls EXCEPT
                ![p].is_active = row.is_active,
                ![p].is_default = IF row.is_default THEN "true"
                                  ELSE "false",
                ![p].pc = IF row.is_active THEN "deactivate"
                          ELSE IF row.is_default THEN "unset" ELSE "done"]
    /\ UNCHANGED <<nodeActive, nodeBlocked, syncs, runs, started, applyCalls>>

StoreNext ==
    \/ \E p \in CallIds : BeginCreate(p)
    \/ \E p \in CallIds : CheckExisting(p)
    \/ \E p \in CallIds : CountConfigs(p)
    \/ \E p \in CallIds : DeactivateAll(p)
    \/ \E p \in CallIds : UnsetDefaultFlag(p)
    \/ \E p \in CallIds : InsertConfig(p)
    \/ \E p \in CallIds : BeginUpdate(p)
    \/ \E p \in CallIds : UpdateFields(p)

\* the store is empty when the first call is made
InitStore ==
    /\ nodeActive = [n \in NodeIds |-> TRUE]
    /\ nodeBlocked = [n \in NodeIds |-> n = MaxNodes]
    /\ syncs = <<>>
    /\ runs = [r \in RunIds |-> IdleRun]
    /\ started = 0
    /\ applyCalls = [c \in ConfigIds |-> [n \in NodeIds |-> 0]]
    /\ configs = <<>>
    /\ calls = [p \in CallIds |-> IdleCall]

SpecStore == InitStore /\ [][StoreNext]_vars

\* ---- the store can fail ------------------------------------------------------
\* A tracker call of run r may raise: MaxFaults times of its own accord, and
\* always once the session is broken.  A failure inside flush or commit, or
\* on the connection, leaves the session unusable until rollback (which the
\* service never calls); a failure to obtain a connection does not: both
\* outcomes are possible.
StorageError == "storage_error"

CanFail(r) == runs[r].broken \/ runs[r].faults < MaxFaults

Failed(run, breaks) ==
    [run EXCEPT !.faults = IF @ < MaxFaults THEN @ + 1 ELSE @,
                !.broken = @ \/ breaks]

\* the task ends with the exception (it is kept in the task's future)
Raised(task) == [task EXCEPT !.pc = "done", !.log = @ \o <<"raised">>]

\* _get_or_create_sync raises (line 253, before the try block): the query
\* or the insert failed, no row is written
FailGetOrCreate(r, t) ==
    /\ Running(r, t)
    /\ runs[r].tasks[t].pc \in {"get", "create"}
    /\ CanFail(r)
    /\ \E breaks \in BOOLEAN :
          runs' = [runs EXCEPT
              ![r] = [Failed(@, breaks) EXCEPT !.tasks[t] = Raised(@)]]
    /\ UNCHANGED <<configs, calls, nodeActive, nodeBlocked, syncs, started, applyCalls>>

\* the IN_PROGRESS write raises (lines 257-262, inside the try block): the
\* except block is entered
FailMarkInProgress(r, t) ==
    /\ Running(r, t)
    /\ runs[r].tasks[t].pc = "mark"
    /\ CanFail(r)
    /\ \E breaks \in BOOLEAN :
          runs' = [runs EXCEPT
              ![r] = [Failed(@, breaks) EXCEPT !.tasks[t].pc = "except"]]
    /\ UNCHANGED <<configs, calls, nodeActive, nodeBlocked, syncs, started, applyCalls>>

\* the write after the response raises: the COMPLETED write of lines 313-318
\* (the except block is entered) or the FAILED write of lines 336-342 (the
\* task ends with the exception)
FailFinishApply(r, t) ==
    /\ Running(r, t)
    /\ runs[r].tasks[t].pc = "inflight"
    /\ CanFail(r)
    /\ \E o \in ApplyOutcomes, breaks \in BOOLEAN :
          runs' = [runs EXCEPT
              ![r] = [Failed(@, breaks) EXCEPT
                        !.tasks[t] =
                            IF ApplyError(o) = NULL
                            THEN [@ EXCEPT !.pc = "except",
                                           !.answer = AnswerOf(o),
                                           !.log = @ \o <<"response">>]
                            ELSE Raised([@ EXCEPT
                                           !.answer = AnswerOf(o),
                                           !.log = @ \o <<"response">>])]]
    /\ UNCHANGED <<configs, calls, nodeActive, nodeBlocked, syncs, started, applyCalls>>

\* the except block after a storage error (lines 327-344): FAILED is
\* written with the text of the exception, the task returns False
WriteFailed(r, t) ==
    /\ Running(r, t)
    /\ runs[r].tasks[t].pc = "except"
    /\ LET task == runs[r].tasks[t]
           row == UpdatedRow(runs[r].cache, task.sync, FAILED, StorageError, TRUE)
       IN /\ syncs' = [syncs EXCEPT ![task.sync] = row]
          /\ runs' = [runs EXCEPT ![r].cache[task.sync] = row,
                                  ![r].tasks[t].pc = "done",
                                  ![r].tasks[t].log = @ \o <<FAILED>>]
    /\ UNCHANGED <<configs, calls, nodeActive, nodeBlocked, started, applyCalls>>

\* the FAILED write of the except block raises too
FailWriteFailed(r, t) ==
    /\ Running(r, t)
    /\ runs[r].tasks[t].pc = "except"
    /\ CanFail(r)
    /\ \E breaks \in BOOLEAN :
          runs' = [runs EXCEPT
              ![r] = [Failed(@, breaks) EXCEPT !.tasks[t] = Raised(@)]]
    /\ UNCHANGED <<configs, calls, nodeActive, nodeBlocked, syncs, started, applyCalls>>

\* get_config_sync_summary raises (line 88): deploy_config raises
FailSummary(r) ==
    /\ runs[r].phase = "running"
    /\ AllTasksDone(r)
    /\ CanFail(r)
    /\ runs' = [runs EXCEPT
          ![r] = [Failed(@, TRUE) EXCEPT !.phase = "raised", !.error = 500,
                                         !.tasks = <<>>, !.cache = <<>>]]
    /\ UNCHANGED <<configs, calls, nodeActive, nodeBlocked, syncs, started, applyCalls>>

\* a broken session lets no tracker call through
Usable(r) == ~runs[r].broken

\* one call is followed, from its dispatch to its return
FirstCall == started = 0

FaultNext ==
    \/ \E r \in RunIds : FirstCall /\ DeployConfig(r)
    \/ \E r \in RunIds : FirstCall /\ SyncAllNodes(r)
    \/ \E r \in RunIds : \E t \in 1..MaxTargets : Usable(r) /\ GetSync(r, t)
    \/ \E r \in RunIds : \E t \in 1..MaxTargets : Usable(r) /\ CreateSync(r, t)
    \/ \E r \in RunIds : \E t \in 1..MaxTargets :
            Usable(r) /\ MarkInProgress(r, t)
    \/ \E r \in RunIds : \E t \in 1..MaxTargets : Usable(r) /\ FinishApply(r, t)
    \/ \E r \in RunIds : \E t \in 1..MaxTargets : Usable(r) /\ WriteFailed(r, t)
    \/ \E r \in RunIds : Usable(r) /\ Gather(r)
    \/ \E r \in RunIds : \E t \in 1..MaxTargets : FailGetOrCreate(r, t)
    \/ \E r \in RunIds : \E t \in 1..MaxTargets : FailMarkInProgress(r, t)
    \/ \E r \in RunIds : \E t \in 1..MaxTargets : FailFinishApply(r, t)
    \/ \E r \in RunIds : \E t \in 1..MaxTargets : FailWriteFailed(r, t)
    \/ \E r \in RunIds : FailSummary(r)

SpecFault == Init /\ [][FaultNext]_vars

TypeOK ==
    /\ \A i \in 1..Len(syncs) : syncs[i].status \in SyncStatus
    /\ started \in 0..(MaxStarts + MaxRedeploys)

\* ---- vocabulary of the properties ------------------------------------------
Last(s) == s[Len(s)]

\* the task <<r, t>> takes the step
Steps(r, t) ==
    /\ Running(r, t)
    /\ runs[r].tasks[t].pc # "done"
    /\ runs'[r].tasks[t] # runs[r].tasks[t]

Terminal == {COMPLETED, FAILED}

\* the rows of a (config, node) pair that are live
LiveRecords(config_id, node_id) ==
    {i \in GetSyncStatus(config_id, node_id) : syncs[i].is_active}

Eligible(n) == n \in NodeIds /\ nodeActive[n] /\ ~nodeBlocked[n]

\* ---- C1 ---------------------------------------------------------------------
\* C1: a task of a deploy with force=false whose record was COMPLETED when
\* _get_or_create_sync returned it sends no apply request and leaves the
\* record as it is (status, last_sync, last_attempt, retry_count,
\* error_message).
C1_CompletedIsSkipped ==
    [][\A r \in RunIds, t \in 1..MaxTargets :
          (Steps(r, t) /\ ~runs[r].force /\ runs[r].tasks[t].seen = COMPLETED)
              => (syncs' = syncs /\ applyCalls' = applyCalls)]_vars

\* ---- C2 ---------------------------------------------------------------------
\* C2: a deploy with force=false that begins when every target is already
\* COMPLETED (the second of two calls whose applies all succeeded, nothing
\* in between) contacts no node and returns the summary of the first.
C2_SecondDeployContactsNoNode ==
    \A r \in RunIds :
        (runs[r].phase \in {"running", "returned"} /\ ~runs[r].force
            /\ runs[r].done0)
            => /\ runs[r].sent = 0
               /\ runs[r].phase = "returned"
                    => runs[r].summary = runs[r].summary0

\* ---- C3 ---------------------------------------------------------------------
\* C3: there is never more than one live record of a (config, node) pair.
C3_OneLiveRecordPerPair ==
    \A i, j \in 1..Len(syncs) :
        (/\ i # j
         /\ syncs[i].config_version_id = syncs[j].config_version_id
         /\ syncs[i].node_id = syncs[j].node_id)
            => ~(syncs[i].is_active /\ syncs[j].is_active)

\* ---- C4 ---------------------------------------------------------------------
\* C4: when a deploy has returned, total_nodes of its summary is the number
\* of active nodes among its targets, and each of these has exactly one live
\* record of the config.
C4_SummaryCountsTargets ==
    \A r \in RunIds :
        runs[r].phase = "returned"
            => LET hit == Range(runs[r].targets) \cap ActiveNodes
               IN /\ runs[r].summary.total_nodes = Cardinality(hit)
                  /\ \A n \in hit :
                        Cardinality(LiveRecords(runs[r].config, n)) = 1

\* ---- C7 ---------------------------------------------------------------------
\* C7: no record exists for, and no apply request was sent to, a node that
\* is inactive or blocked.
C7_OnlyEligibleTargets ==
    /\ \A i \in 1..Len(syncs) : Eligible(syncs[i].node_id)
    /\ \A c \in ConfigIds, n \in NodeIds :
            applyCalls[c][n] > 0 => Eligible(n)

\* ---- C5 ---------------------------------------------------------------------
\* C5: within one run, a step of the task of one node - a failed apply
\* included - changes no row of another node and no task of another node;
\* every unfinished task can take its next step whatever the other tasks
\* did; and the task whose apply succeeds leaves its record COMPLETED.
TaskEnabled(r, t) ==
    \/ ENABLED GetSync(r, t)
    \/ ENABLED CreateSync(r, t)
    \/ ENABLED MarkInProgress(r, t)
    \/ ENABLED FinishApply(r, t)

C5_NeverBlocked ==
    \A r \in RunIds, t \in 1..MaxTargets :
        (Running(r, t) /\ runs[r].tasks[t].pc # "done") => TaskEnabled(r, t)

C6_FailureRecorded ==
    [][\A r \in RunIds, t \in 1..MaxTargets :
          (Steps(r, t) /\ runs[r].tasks[t].pc = "inflight"
              /\ Last(runs'[r].tasks[t].log) = FAILED)
            => LET id == runs[r].tasks[t].sync
               IN /\ syncs'[id].status = FAILED
                  /\ syncs'[id].error_message # NULL
                  /\ syncs'[id].retry_count = syncs[id].retry_count + 1
                  /\ runs'[r].phase # "raised"]_vars

\* ---- C8 ---------------------------------------------------------------------
\* number of terminal statuses a task has written
RECURSIVE TerminalWrites(_)
TerminalWrites(log) ==
    IF log = <<>> THEN 0
    ELSE (IF Last(log) \in Terminal THEN 1 ELSE 0)
            + TerminalWrites(SubSeq(log, 1, Len(log) - 1))

\* the run returns in this step
Returns(r) == runs[r].phase = "running" /\ runs'[r].phase = "returned"

\* a task of another run that is still running holds record i between its
\* get-or-create and its terminal write
HeldByOtherRun(r, i) ==
    \E q \in RunIds \ {r} : \E u \in 1..MaxTargets :
        /\ Running(q, u)
        /\ runs[q].tasks[u].sync = i
        /\ runs[q].tasks[u].pc \in {"mark", "inflight"}

Pos(log, e) ==
    IF \E k \in DOMAIN log : log[k] = e
    THEN CHOOSE k \in DOMAIN log : log[k] = e /\ \A j \in 1..(k - 1) : log[j] # e
    ELSE 0

Before(log, a, b) == Pos(log, a) > 0 /\ Pos(log, a) < Pos(log, b)

C10_RetryThenSuccess ==
    [][\A r \in RunIds, t \in 1..MaxTargets :
          (Steps(r, t) /\ runs[r].tasks[t].pc = "inflight"
              /\ Last(runs'[r].tasks[t].log) = COMPLETED
              /\ syncs[runs[r].tasks[t].sync].retry_count > 0)
            => LET row == syncs'[runs[r].tasks[t].sync]
               IN /\ row.status = COMPLETED
                  /\ row.error_message = NULL
                  /\ row.last_sync # NoTime
                  /\ row.retry_count = 0]_vars

\* ---- C11 --------------------------------------------------------------------
\* C11: a record carries an error message only while it is FAILED: a
\* record that is PENDING, IN_PROGRESS or COMPLETED has error_message NULL.
C11_ErrorOnlyWhileFailed ==
    \A i \in 1..Len(syncs) :
        syncs[i].error_message # NULL => syncs[i].status = FAILED

\* ---- C12 --------------------------------------------------------------------
\* C12: a record that is COMPLETED has error_message NULL and last_sync set.
C12_CompletedIsClean ==
    \A i \in 1..Len(syncs) :
        syncs[i].status = COMPLETED
            => syncs[i].error_message = NULL /\ syncs[i].last_sync # NoTime

\* ---- C13 --------------------------------------------------------------------
\* C13: a record that is FAILED has an error message.
C13_FailedHasError ==
    \A i \in 1..Len(syncs) :
        syncs[i].status = FAILED => syncs[i].error_message # NULL

\* ---- C14 --------------------------------------------------------------------
\* C14: a call one of whose tracker calls raised (get-or-create, one of the
\* status writes, the summary query) does not return a job descriptor: it
\* raises.
C14_StorageFailurePropagates ==
    \A r \in RunIds : runs[r].faults > 0 => runs[r].phase # "returned"

\* ---- C15 --------------------------------------------------------------------
\* the step is the beginning of a call in slot r
Begins(r) == runs[r].phase # "running" /\ runs'[r] # runs[r]

\* C15: the beginning of a call changes no record and sends no apply
\* request; the call is dispatched only with a resolved config and a
\* non-empty target list, one task per target; otherwise it raises 404 or
\* 400 and has no task.
C15_FailFast ==
    [][\A r \in RunIds :
          Begins(r) =>
            /\ syncs' = syncs /\ applyCalls' = applyCalls
            /\ runs'[r].phase \in {"running", "raised"}
            /\ runs'[r].phase = "running"
                  => /\ runs'[r].config \in ConfigIds
                     /\ runs'[r].targets # <<>>
                     /\ Len(runs'[r].tasks) = Len(runs'[r].targets)
            /\ runs'[r].phase = "raised"
                  => /\ runs'[r].error \in {404, 400}
                     /\ runs'[r].tasks = <<>>
                     /\ runs'[r].sent = 0]_vars

\* a call has raised 400 while records of an earlier call exist
C15_Witness ==
    \E r \in RunIds :
        /\ runs[r].phase = "raised" /\ runs[r].error = 400
        /\ Len(syncs) > 0

\* ---- C16 --------------------------------------------------------------------
\* C16: a call whose node list names an id that is not in the registry
\* raises not-found (404) and sends no apply request.
C16_UnknownNodeIsNotFound ==
    \A r \in RunIds :
        runs[r].missing
            => /\ runs[r].phase = "raised"
               /\ runs[r].error = 404
               /\ runs[r].sent = 0

\* ---- C17 --------------------------------------------------------------------
\* C17: no two tasks of one call have an apply request to the same node in
\* flight at the same moment.
C17_OneInFlightPerNode ==
    \A r \in RunIds : \A t, u \in 1..MaxTargets :
        (/\ Running(r, t) /\ Running(r, u) /\ t # u
         /\ runs[r].tasks[t].node = runs[r].tasks[u].node)
            => ~(/\ runs[r].tasks[t].pc = "inflight"
                 /\ runs[r].tasks[u].pc = "inflight")

\* ---- C18 --------------------------------------------------------------------
\* C18: with calls made one after the other, a call of which the apply to
\* an active target failed returns the status "failed".
C18_PartialFailureVisible ==
    [][\A r \in RunIds :
          (Returns(r)
              /\ \E t \in DOMAIN runs[r].tasks :
                    /\ runs[r].tasks[t].node \in ActiveNodes
                    /\ Last(runs[r].tasks[t].log) = FAILED)
            => runs'[r].summary.sync_status = "failed"]_vars

\* ---- C19 --------------------------------------------------------------------
\* the rule of the overall status, in priority order
PriorityRule(total, synced, pending, failed) ==
    IF synced = total /\ total > 0 THEN "completed"
    ELSE IF failed > 0 THEN "failed"
    ELSE IF pending > 0 THEN "in_progress"
    ELSE IF total = 0 THEN "no_nodes"
    ELSE "unknown"

FollowsRule(summary) ==
    summary.sync_status =
        PriorityRule(summary.total_nodes, summary.synced_nodes,
                     summary.pending_nodes, summary.failed_nodes)

\* C19: the summary of every config, computed in any state, and the summary
\* every call returned, has the overall status the priority rule gives for
\* its counts; pending_nodes counts the PENDING and the IN_PROGRESS records.
C19_OverallStatusRule ==
    /\ \A c \in ConfigIds :
          /\ FollowsRule(GetConfigSyncSummary(c))
          /\ ActiveNodes # {}
                => GetConfigSyncSummary(c).pending_nodes
                     = CountStatus(c, PENDING) + CountStatus(c, IN_PROGRESS)
    /\ \A r \in RunIds :
          runs[r].phase = "returned" => FollowsRule(runs[r].summary)

\* a call has returned "completed" although a record of an active node is
\* FAILED: the synced count decides first
C19_Witness ==
    \E r \in RunIds :
        /\ runs[r].phase = "returned"
        /\ runs[r].summary.sync_status = "completed"
        /\ runs[r].summary.failed_nodes > 0

\* ---- C20 --------------------------------------------------------------------
\* C20: the write after the response: a 2xx response with success=true ends
\* the attempt COMPLETED; a response that is not 2xx, or is 2xx without
\* success=true, ends it FAILED.
C20_ResponseClassification ==
    [][\A r \in RunIds, t \in 1..MaxTargets :
          (Steps(r, t) /\ runs[r].tasks[t].pc = "inflight")
            => LET after == runs'[r].tasks[t]
                   row == syncs'[after.sync]
               IN /\ after.answer = "2xx_success"
                     => Last(after.log) = COMPLETED /\ row.status = COMPLETED
                  /\ after.answer \in {"non_2xx", "2xx_failure"}
                     => Last(after.log) = FAILED /\ row.status = FAILED]_vars

C22_AllSucceededIsCompleted ==
    [][\A r \in RunIds :
          (Returns(r)
              /\ Range(runs[r].targets) \subseteq ActiveNodes
              /\ \A t \in DOMAIN runs[r].tasks :
                    Last(runs[r].tasks[t].log) = COMPLETED)
            => runs'[r].summary.sync_status = "completed"]_vars

\* ---- C23 --------------------------------------------------------------------
\* the transitions of the status of a record
Transitions ==
    {<<PENDING, IN_PROGRESS>>, <<IN_PROGRESS, COMPLETED>>,
     <<IN_PROGRESS, FAILED>>, <<FAILED, IN_PROGRESS>>,
     <<COMPLETED, IN_PROGRESS>>, <<OUTDATED, IN_PROGRESS>>}

\* C23: every change of the status of a record is one of these transitions.
C23_OnlySpecifiedTransitions ==
    [][\A i \in 1..Len(syncs) :
          syncs'[i].status # syncs[i].status
              => <<syncs[i].status, syncs'[i].status>> \in Transitions]_vars

\* ---- C24 --------------------------------------------------------------------
\* a task writes status st to record i after its response, in this step
WritesTerminal(i, st) ==
    \E r \in RunIds : \E t \in 1..MaxTargets :
        /\ Steps(r, t)
        /\ runs[r].tasks[t].pc = "inflight"
        /\ runs[r].tasks[t].sync = i
        /\ Last(runs'[r].tasks[t].log) = st

\* C24: retry_count of a record is one more after every FAILED write, 0
\* after every COMPLETED write, and changes in no other step.
C24_RetryCountExact ==
    [][\A i \in 1..Len(syncs) :
          syncs'[i].retry_count =
              IF WritesTerminal(i, FAILED) THEN syncs[i].retry_count + 1
              ELSE IF WritesTerminal(i, COMPLETED) THEN 0
              ELSE syncs[i].retry_count]_vars

\* ---- C25 --------------------------------------------------------------------
\* another task holds record i between its get-or-create and its terminal
\* write
HeldByOtherTask(r, t, i) ==
    \E q \in RunIds : \E u \in 1..MaxTargets :
        /\ <<q, u>> # <<r, t>>
        /\ Running(q, u)
        /\ runs[q].tasks[u].sync = i
        /\ runs[q].tasks[u].pc \in {"mark", "inflight"}

\* C25: the status a task writes after its response, when no other task
\* holds the record (its terminal write is the last of the attempts under
\* way), is the status of the record after the write; a task that takes the
\* short-circuit leaves the terminal status it found; and once no call is
\* running every record is COMPLETED or FAILED.
C25_LastWriteWins ==
    [][/\ \A r \in RunIds, t \in 1..MaxTargets :
            Steps(r, t) =>
              LET task == runs[r].tasks[t]
                  after == runs'[r].tasks[t]
              IN /\ (task.pc = "inflight"
                        /\ ~HeldByOtherTask(r, t, task.sync))
                    => syncs'[task.sync].status = Last(after.log)
                 /\ (task.pc = "mark" /\ after.pc = "done")
                    => /\ syncs'[task.sync].status = syncs[task.sync].status
                       /\ syncs'[task.sync].status \in Terminal
       /\ (\A q \in RunIds : runs'[q].phase # "running")
            => \A i \in 1..Len(syncs') : syncs'[i].status \in Terminal]_vars

\* ---- C26 --------------------------------------------------------------------
SameOutcome(a, b) ==
    /\ a.status = b.status
    /\ a.error_message = b.error_message
    /\ a.retry_count = b.retry_count

\* C26: after a status write of a task (IN_PROGRESS; COMPLETED; FAILED with
\* increment_retry), the same call of update_sync_status made once more
\* leaves status, error_message and retry_count as the first call left them.
C26_WritesAreIdempotent ==
    [][\A r \in RunIds, t \in 1..MaxTargets :
          Steps(r, t) =>
            LET task == runs[r].tasks[t]
                row == syncs'[task.sync]
                wrote == Last(runs'[r].tasks[t].log)
            IN /\ task.pc = "mark"
                  => SameOutcome(row, CalledAgain(row, IN_PROGRESS, NULL, FALSE))
               /\ (task.pc = "inflight" /\ wrote = COMPLETED)
                  => SameOutcome(row, CalledAgain(row, COMPLETED, NULL, FALSE))
               /\ (task.pc = "inflight" /\ wrote = FAILED)
                  => SameOutcome(row, CalledAgain(row, FAILED,
                                                  row.error_message, TRUE))]_vars

\* ---- C27 --------------------------------------------------------------------
\* record i is IN_PROGRESS and no task alive is waiting for the answer to
\* the attempt that marked it
Abandoned(i) ==
    /\ syncs[i].status = IN_PROGRESS
    /\ \A r \in RunIds, t \in 1..MaxTargets :
          Running(r, t) =>
            ~(runs[r].tasks[t].sync = i /\ runs[r].tasks[t].pc = "inflight")

AbandonedOf(config_id, node_id) ==
    {i \in GetSyncStatus(config_id, node_id) : Abandoned(i)}

\* C27: with calls made one after the other, any of them possibly
\* cancelled: a task whose pair has an abandoned IN_PROGRESS record creates
\* no record; a task that found its record IN_PROGRESS sends the apply
\* request whatever the force flag; and when a call returns, no record of a
\* pair it targeted is IN_PROGRESS.
C27_AbandonedReconciled ==
    [][\A r \in RunIds :
         /\ \A t \in DOMAIN runs'[r].tasks :
               Steps(r, t) =>
                 LET task == runs[r].tasks[t]
                 IN /\ AbandonedOf(runs[r].config, task.node) # {}
                       => Len(syncs') = Len(syncs)
                    /\ (task.pc = "mark" /\ task.seen = IN_PROGRESS)
                       => /\ runs'[r].tasks[t].pc = "inflight"
                          /\ applyCalls'[runs[r].config][task.node]
                                = applyCalls[runs[r].config][task.node] + 1
         /\ Returns(r)
               => \A n \in Range(runs[r].targets) :
                    \A i \in GetSyncStatus(runs[r].config, n) :
                        syncs'[i].status # IN_PROGRESS]_vars

\* ---- C28 --------------------------------------------------------------------
\* the instants now - 24 h can fall on: before every record, or just after
\* the last update of a record
Cutoffs == {0} \cup {syncs[i].last_attempt + 1 : i \in 1..Len(syncs)}

\* C28: whenever it is called, get_nodes_needing_sync(v) returns exactly the
\* active nodes that have no record of v or whose latest record of v is not
\* COMPLETED.
C28_NeedingSyncIsNotCompleted ==
    \A c \in ConfigIds, cutoff \in Cutoffs :
        GetNodesNeedingSync(c, cutoff) =
            {n \in ActiveNodes :
                \/ GetSyncStatus(c, n) = {}
                \/ syncs[LatestSync(c, n)].status # COMPLETED}

\* ---- C29 --------------------------------------------------------------------
ActiveConfigs == {i \in DOMAIN configs : configs[i].is_active}

\* C29: in every state of the config store, whatever create_with_owner and
\* update_config calls have run and however they interleaved, at most one
\* ConfigVersion is active, and no two active ones have the same checksum.
C29_OneActiveConfig ==
    /\ Cardinality(ActiveConfigs) <= 1
    /\ \A i, j \in ActiveConfigs :
          configs[i].checksum = configs[j].checksum => i = j

\* ---- C30 --------------------------------------------------------------------
\* C30: in the summary a call returns, and in the summary of every config
\* in any state, the four status counts add up to total_nodes at most.
WithinTotal(summary) ==
    summary.synced_nodes + summary.pending_nodes + summary.failed_nodes
        + summary.outdated_nodes <= summary.total_nodes

C30_CountsWithinTotal ==
    /\ \A c \in ConfigIds : WithinTotal(GetConfigSyncSummary(c))
    /\ \A r \in RunIds :
          runs[r].phase = "returned" => WithinTotal(runs[r].summary)

====
